---- MODULE Spec2Model ----
(***************************************************************************)
(* GermiTrack 1.4: the germination-parameter engine                        *)
(* (GermiTrackAnalyzer.calculate_all_germination_parameters, _combination, *)
(* _calculate_tx) and the batch driver GermiTrackDesktop.analyze_data.     *)
(*                                                                         *)
(* float64 values are modelled by exact rationals <<n, d>> (d > 0, lowest  *)
(* terms).  A statistic is a record [k, n, d, a, rd]:                      *)
(*   k = "rat"  : the rational n/d                                         *)
(*   k = "nan"  : numpy's NaN          k = "inf" : numpy's +-inf (sign n)  *)
(*   k = "sqrt" : sqrt(n/d), irrational                                    *)
(*   k = "asin" : arcsin(sqrt(n/d)) * 180/pi, not one of the exact angles  *)
(*   k = "ent"  : -sum(f * log2 f) over the frequencies a, nonzero         *)
(* rd is the number of decimals an irrational value was rounded to (-1:    *)
(* not rounded); a rational is rounded exactly.                            *)
(***************************************************************************)
EXTENDS Integers, Sequences, FiniteSets, TLC

\* ------------------------------------------------------------ arithmetic

Abs(x) == IF x < 0 THEN 0 - x ELSE x

RECURSIVE Gcd(_, _)
Gcd(a, b) == IF b = 0 THEN a ELSE Gcd(b, a % b)

\* n/d in lowest terms with a positive denominator (d # 0)
Rat(n, d) ==
    LET g == Gcd(Abs(n), Abs(d))
        s == IF d < 0 THEN 0 - 1 ELSE 1
    IN  <<(s * n) \div g, (s * d) \div g>>

RInt(i) == <<i, 1>>
RAdd(p, q) == Rat(p[1] * q[2] + q[1] * p[2], p[2] * q[2])
RSub(p, q) == Rat(p[1] * q[2] - q[1] * p[2], p[2] * q[2])
RMul(p, q) == Rat(p[1] * q[1], p[2] * q[2])
\* q # 0
RDiv(p, q) == Rat(p[1] * q[2], p[2] * q[1])
RLt(p, q) == p[1] * q[2] < q[1] * p[2]
RLe(p, q) == p[1] * q[2] <= q[1] * p[2]

RECURSIVE Pow10(_)
Pow10(k) == IF k = 0 THEN 1 ELSE 10 * Pow10(k - 1)

\* round(x, digits) of an exact value: to the nearest multiple of
\* 10^-digits, a tie to the even one
RRound(q, digits) ==
    LET s == q[1] * Pow10(digits)
        f == s \div q[2]
        r == s - f * q[2]
        up == (2 * r > q[2]) \/ (2 * r = q[2] /\ f % 2 = 1)
    IN  Rat(IF up THEN f + 1 ELSE f, Pow10(digits))

\* the integer square root of a perfect square, else -1
RECURSIVE ISqrtFrom(_, _)
ISqrtFrom(n, r) ==
    IF r * r > n THEN 0 - 1
    ELSE IF r * r = n THEN r
    ELSE ISqrtFrom(n, r + 1)

ISqrt(n) == IF n < 0 THEN 0 - 1 ELSE ISqrtFrom(n, 0)

\* ------------------------------------------------------------- statistics

NumRat(q) == [k |-> "rat", n |-> q[1], d |-> q[2], a |-> <<>>, rd |-> 0 - 1]
NumInt(i) == NumRat(RInt(i))
NaN == [k |-> "nan", n |-> 0, d |-> 1, a |-> <<>>, rd |-> 0 - 1]
Inf(sign) == [k |-> "inf", n |-> sign, d |-> 1, a |-> <<>>, rd |-> 0 - 1]
NumSym(kind, q, args) == [k |-> kind, n |-> q[1], d |-> q[2], a |-> args, rd |-> 0 - 1]

IsZero(v) == v.k = "rat" /\ v.n = 0
IsFinite(v) == v.k \notin {"nan", "inf"}
IsRatVal(v, q) == v.k = "rat" /\ <<v.n, v.d>> = q

\* x / y of numpy float64 scalars: a zero divisor gives nan or inf
NpDiv(p, q) ==
    IF q[1] # 0 THEN NumRat(RDiv(p, q))
    ELSE IF p[1] = 0 THEN NaN
    ELSE Inf(IF p[1] < 0 THEN 0 - 1 ELSE 1)

\* np.sqrt of an exact value: nan below 0
NpSqrt(q) ==
    IF q[1] < 0 THEN NaN
    ELSE IF ISqrt(q[1]) >= 0 /\ ISqrt(q[2]) >= 0
         THEN NumRat(<<ISqrt(q[1]), ISqrt(q[2])>>)
         ELSE NumSym("sqrt", q, <<>>)

\* np.arcsin(np.sqrt(x)) * (180 / np.pi): nan when sqrt(x) leaves [-1, 1]
NpArcsinSqrtDeg(x) ==
    IF x[1] < 0 \/ RLt(<<1, 1>>, x) THEN NaN
    ELSE IF x = <<0, 1>> THEN NumInt(0)
    ELSE IF x = <<1, 4>> THEN NumInt(30)
    ELSE IF x = <<1, 2>> THEN NumInt(45)
    ELSE IF x = <<3, 4>> THEN NumInt(60)
    ELSE IF x = <<1, 1>> THEN NumInt(90)
    ELSE NumSym("asin", x, <<>>)

\* round(v, digits) as the record's fields apply it
Round(v, digits) ==
    IF v.k = "rat" THEN NumRat(RRound(<<v.n, v.d>>, digits))
    ELSE IF v.k \in {"nan", "inf"} THEN v
    ELSE [v EXCEPT !.rd = digits]

\* ------------------------------------------------------ the input table

\* A column name is prefix + str(idx): "Day", "ti", "R1", "TRep2", "G3"...
ColName(prefix, idx) == [prefix |-> prefix, idx |-> idx]
\* col.startswith('R')
StartsWithR(nm) == nm.prefix \in {"R", "Rep"}
\* 'Rep' in col
ContainsRep(nm) == nm.prefix \in {"Rep", "TRep"}

\* A cell of a column: a number, or missing (NaN after loading)
Cell(v) == [na |-> FALSE, v |-> v]
NA == [na |-> TRUE, v |-> 0]

\* A table (DataFrame): names[j] heads column cols[j]; every column has
\* the same number of cells.
NRows(table) == IF Len(table.cols) = 0 THEN 0 ELSE Len(table.cols[1])
HasColumn(table, nm) == \E j \in 1..Len(table.names) : table.names[j] = nm
Column(table, nm) ==
    table.cols[CHOOSE j \in 1..Len(table.names) : table.names[j] = nm]

\* series.values of a column without missing cells
Values(col) == [j \in 1..Len(col) |-> col[j].v]

\* series.fillna(0).values: the array and its dtype (a column loaded with a
\* missing cell is float64, one without is int64)
FillNa(col) ==
    [vals |-> [j \in 1..Len(col) |-> IF col[j].na THEN 0 ELSE col[j].v],
     float |-> \E j \in 1..Len(col) : col[j].na]

\* rep_columns[:6] is the slice the curve export and the charts take
ChartReplicateCap == 6

\* RepColumns with the charts' slice applied
RepColumnsCapped(table) ==
    LET named == SelectSeq(table.names,
                           LAMBDA nm : StartsWithR(nm) \/ ContainsRep(nm))
        chosen == IF Len(named) = 0 THEN Tail(table.names) ELSE named
    IN  SubSeq(chosen, 1, IF Len(chosen) < ChartReplicateCap
                          THEN Len(chosen) ELSE ChartReplicateCap)

\* lines 89-91
RepColumns(table) ==
    LET named == SelectSeq(table.names,
                           LAMBDA nm : StartsWithR(nm) \/ ContainsRep(nm))
    IN  IF Len(named) = 0 THEN Tail(table.names) ELSE named

\* lines 92-98
DaysOf(table) ==
    IF HasColumn(table, ColName("Day", 0))
    THEN Values(Column(table, ColName("Day", 0)))
    ELSE IF HasColumn(table, ColName("ti", 0))
         THEN Values(Column(table, ColName("ti", 0)))
         ELSE Values(table.cols[1])

\* ------------------------------------------------------------ array sums

RECURSIVE Sum(_)
Sum(xs) == IF Len(xs) = 0 THEN 0 ELSE Head(xs) + Sum(Tail(xs))

RECURSIVE RSum(_)
RSum(qs) == IF Len(qs) = 0 THEN <<0, 1>> ELSE RAdd(Head(qs), RSum(Tail(qs)))

\* np.cumsum
CumSum(xs) == [j \in 1..Len(xs) |-> Sum(SubSeq(xs, 1, j))]

\* np.all(days > 0)
AllPositive(days) == \A j \in 1..Len(days) : days[j] > 0

\* ----------------------------------------------------------- _combination

RECURSIVE Factorial(_)
Factorial(n) == IF n <= 1 THEN 1 ELSE n * Factorial(n - 1)

\* n! / m! for 0 <= m <= n, as the product (m+1) * ... * n
RECURSIVE FactorialRatio(_, _)
FactorialRatio(n, m) == IF n <= m THEN 1 ELSE n * FactorialRatio(n - 1, m)

\* math.factorial(n) raises TypeError for a float argument on an
\* interpreter from 3.10 on; before, it accepts a float with an integral
\* value.  isFloat: n is a numpy float64; floatOk: the interpreter accepts it.
FactorialRaises(isFloat, floatOk) == isFloat /\ ~floatOk

\* self._combination(n, r), r a Python int.  n!/(r!(n-r)!) is computed as
\* (n!/(n-r)!)/r!, which is the same number.
Combination(n, r, isFloat, floatOk) ==
    IF n < r \/ n < 0 \/ r < 0 THEN <<0, 1>>
    ELSE IF FactorialRaises(isFloat, floatOk) THEN <<0, 1>>
    ELSE Rat(FactorialRatio(n, n - r), Factorial(r))

\* ----------------------------------------------------------- _calculate_tx

\* TxLoop interpolating down from days[i] instead of up from days[i-1]
RECURSIVE TxLoopReversed(_, _, _, _)
TxLoopReversed(days, cumulative, target, i) ==
    IF i > Len(cumulative)
    THEN [branch |-> "fallback", i |-> i, val |-> RInt(days[Len(days)])]
    ELSE IF RLe(target, RInt(cumulative[i]))
    THEN IF i = 1
         THEN [branch |-> "first", i |-> i, val |-> RInt(days[1])]
         ELSE IF cumulative[i] # cumulative[i - 1]
              THEN [branch |-> "interp", i |-> i,
                    val |-> RSub(RInt(days[i]),
                                 RDiv(RMul(RSub(target, RInt(cumulative[i - 1])),
                                           RInt(days[i] - days[i - 1])),
                                      RInt(cumulative[i] - cumulative[i - 1])))]
              ELSE [branch |-> "flat", i |-> i, val |-> RInt(days[i - 1])]
    ELSE TxLoopReversed(days, cumulative, target, i + 1)

\* TxLoop returning the interpolated offset without days[i-1]
RECURSIVE TxLoopOffsetOnly(_, _, _, _)
TxLoopOffsetOnly(days, cumulative, target, i) ==
    IF i > Len(cumulative)
    THEN [branch |-> "fallback", i |-> i, val |-> RInt(days[Len(days)])]
    ELSE IF RLe(target, RInt(cumulative[i]))
    THEN IF i = 1
         THEN [branch |-> "first", i |-> i, val |-> RInt(days[1])]
         ELSE IF cumulative[i] # cumulative[i - 1]
              THEN [branch |-> "interp", i |-> i,
                    val |-> RDiv(RMul(RSub(target, RInt(cumulative[i - 1])),
                                      RInt(days[i] - days[i - 1])),
                                 RInt(cumulative[i] - cumulative[i - 1]))]
              ELSE [branch |-> "flat", i |-> i, val |-> RInt(days[i - 1])]
    ELSE TxLoopOffsetOnly(days, cumulative, target, i + 1)

\* TxLoop comparing cum_germ > target instead of cum_germ >= target
RECURSIVE TxLoopStrictCompare(_, _, _, _)
TxLoopStrictCompare(days, cumulative, target, i) ==
    IF i > Len(cumulative)
    THEN [branch |-> "fallback", i |-> i, val |-> RInt(days[Len(days)])]
    ELSE IF RLt(target, RInt(cumulative[i]))
    THEN IF i = 1
         THEN [branch |-> "first", i |-> i, val |-> RInt(days[1])]
         ELSE IF cumulative[i] # cumulative[i - 1]
              THEN [branch |-> "interp", i |-> i,
                    val |-> RAdd(RInt(days[i - 1]),
                                 RDiv(RMul(RSub(target, RInt(cumulative[i - 1])),
                                           RInt(days[i] - days[i - 1])),
                                      RInt(cumulative[i] - cumulative[i - 1])))]
              ELSE [branch |-> "flat", i |-> i, val |-> RInt(days[i - 1])]
    ELSE TxLoopStrictCompare(days, cumulative, target, i + 1)

\* The loop of lines 152-162 from index i (1-based) on; target is
\* total_germinated * percentage.  The result names the return statement
\* taken and the index it was taken at.
RECURSIVE TxLoop(_, _, _, _)
TxLoop(days, cumulative, target, i) ==
    IF i > Len(cumulative)
    THEN [branch |-> "fallback", i |-> i, val |-> RInt(days[Len(days)])]
    ELSE IF RLe(target, RInt(cumulative[i]))
    THEN IF i = 1
         THEN [branch |-> "first", i |-> i, val |-> RInt(days[1])]
         ELSE LET x1 == days[i - 1]
                  y1 == cumulative[i - 1]
                  x2 == days[i]
                  y2 == cumulative[i]
              IN  IF y2 # y1
                  THEN [branch |-> "interp", i |-> i,
                        val |-> RAdd(RInt(x1),
                                     RDiv(RMul(RSub(target, RInt(y1)), RInt(x2 - x1)),
                                          RInt(y2 - y1)))]
                  ELSE [branch |-> "flat", i |-> i, val |-> RInt(x1)]
    ELSE TxLoop(days, cumulative, target, i + 1)

\* _calculate_tx with the return statement it took
TxTrace(days, rep_data, total_germinated, percentage) ==
    IF total_germinated = 0
    THEN [branch |-> "zero", i |-> 0, val |-> <<0, 1>>]
    ELSE TxLoop(days, CumSum(rep_data),
                RMul(RInt(total_germinated), percentage), 1)

CalculateTx(days, rep_data, total_germinated, percentage) ==
    TxTrace(days, rep_data, total_germinated, percentage).val

\* ------------------------------- calculate_all_germination_parameters

\* std_dev / mgt * 100 for mgt > 0
CvOf(std_dev, mgt) ==
    IF std_dev.k = "rat"
    THEN NumRat(RMul(RDiv(<<std_dev.n, std_dev.d>>, mgt), RInt(100)))
    ELSE IF std_dev.k = "sqrt"
    THEN NumSym("sqrt",
                RMul(<<std_dev.n, std_dev.d>>,
                     RMul(RDiv(RInt(100), mgt), RDiv(RInt(100), mgt))),
                <<>>)
    ELSE std_dev

\* frequencies = rep_data / total_germinated; frequencies[frequencies > 0]
Frequencies(rep_data, total_germinated) ==
    LET all == [j \in 1..Len(rep_data) |-> Rat(rep_data[j], total_germinated)]
    IN  SelectSeq(all, LAMBDA f : f[1] > 0)

\* -np.sum(frequencies * np.log2(frequencies)) if len(frequencies) > 0 else 0
\* f * log2(f) is 0 exactly when f = 1
Uncertainty(frequencies) ==
    IF Len(frequencies) = 0 THEN NumInt(0)
    ELSE IF \A j \in 1..Len(frequencies) : frequencies[j] = <<1, 1>>
         THEN NumInt(0)
         ELSE NumSym("ent", <<0, 1>>, frequencies)

\* sum(self._combination(ni, 2) for ni in rep_data if ni >= 2)
SynchronyNumerator(rep_data, isFloat, floatOk) ==
    RSum([j \in 1..Len(rep_data) |->
            IF rep_data[j] >= 2
            THEN Combination(rep_data[j], 2, isFloat, floatOk)
            ELSE <<0, 1>>])

\* np.sum(rep_data / days), every day > 0
SpeedSum(days, rep_data) ==
    RSum([j \in 1..Len(rep_data) |-> Rat(rep_data[j], days[j])])

\* np.sum(days * rep_data)
WeightedDays(days, rep_data) ==
    Sum([j \in 1..Len(rep_data) |-> days[j] * rep_data[j]])

\* np.sum(rep_data * (days - mgt) ** 2)
SquaredDeviations(days, rep_data, mgt) ==
    RSum([j \in 1..Len(rep_data) |->
            RMul(RInt(rep_data[j]),
                 RMul(RSub(RInt(days[j]), mgt), RSub(RInt(days[j]), mgt)))])

\* SpeedMaguire skipping the days that are not positive
SpeedMaguireSkipping(days, rep_data) ==
    NumRat(RSum([j \in 1..Len(rep_data) |->
                    IF days[j] > 0 THEN Rat(rep_data[j], days[j]) ELSE <<0, 1>>]))

\* np.sum(rep_data / days) if np.all(days > 0) else 0
SpeedMaguire(days, rep_data) ==
    IF AllPositive(days) THEN NumRat(SpeedSum(days, rep_data)) ELSE NumInt(0)

\* numerator / denominator if denominator > 0 else 0 (lines 114-116)
Synchrony(rep_data, total_germinated, isFloat, floatOk) ==
    LET numerator == SynchronyNumerator(rep_data, isFloat, floatOk)
        denominator == Combination(total_germinated, 2, isFloat, floatOk)
    IN  IF denominator[1] > 0
        THEN NumRat(RDiv(numerator, denominator))
        ELSE NumInt(0)

\* the 0.50 of line 117
Half == <<1, 2>>

\* PositiveStats with the population variance: the squared deviations are
\* divided by total_germinated instead of total_germinated - 1
PositiveStatsPopulationVariance(days, rep, total_germinated, total_seeds, floatOk) ==
    LET rep_data == rep.vals
        mgt == Rat(WeightedDays(days, rep_data), total_germinated)
        variance == IF total_germinated > 1
                    THEN RDiv(SquaredDeviations(days, rep_data, mgt),
                              RInt(total_germinated))
                    ELSE <<0, 1>>
        std_dev == NpSqrt(variance)
    IN  [total_germinated |-> total_germinated,
         germinability |-> NpDiv(RInt(total_germinated * 100), RInt(total_seeds)),
         mgt |-> NumRat(mgt),
         mgr |-> IF mgt[1] > 0 THEN NumRat(RDiv(<<1, 1>>, mgt)) ELSE NumInt(0),
         variance |-> NumRat(variance),
         std_dev |-> std_dev,
         cv |-> IF mgt[1] > 0 THEN CvOf(std_dev, mgt) ELSE NumInt(0),
         speed_maguire |-> SpeedMaguire(days, rep_data),
         uncertainty |-> Uncertainty(Frequencies(rep_data, total_germinated)),
         synchrony |-> Synchrony(rep_data, total_germinated, rep.float, floatOk),
         t50 |-> NumRat(CalculateTx(days, rep_data, total_germinated, Half))]

\* lines 104-117: the statistics of a replicate with total_germinated > 0
PositiveStats(days, rep, total_germinated, total_seeds, floatOk) ==
    LET rep_data == rep.vals
        mgt == Rat(WeightedDays(days, rep_data), total_germinated)
        variance == IF total_germinated > 1
                    THEN RDiv(SquaredDeviations(days, rep_data, mgt),
                              RInt(total_germinated - 1))
                    ELSE <<0, 1>>
        std_dev == NpSqrt(variance)
    IN  [total_germinated |-> total_germinated,
         germinability |-> NpDiv(RInt(total_germinated * 100), RInt(total_seeds)),
         mgt |-> NumRat(mgt),
         mgr |-> IF mgt[1] > 0 THEN NumRat(RDiv(<<1, 1>>, mgt)) ELSE NumInt(0),
         variance |-> NumRat(variance),
         std_dev |-> std_dev,
         cv |-> IF mgt[1] > 0 THEN CvOf(std_dev, mgt) ELSE NumInt(0),
         speed_maguire |-> SpeedMaguire(days, rep_data),
         uncertainty |-> Uncertainty(Frequencies(rep_data, total_germinated)),
         synchrony |-> Synchrony(rep_data, total_germinated, rep.float, floatOk),
         t50 |-> NumRat(CalculateTx(days, rep_data, total_germinated, Half))]

\* DegenerateStats without the guard of line 103: the mean time is 0/0
DegenerateStatsUnguarded(total_germinated) ==
    [total_germinated |-> total_germinated,
     germinability |-> NumInt(0), mgt |-> NaN, mgr |-> NumInt(0),
     variance |-> NumInt(0), std_dev |-> NumInt(0), cv |-> NumInt(0),
     speed_maguire |-> NumInt(0), uncertainty |-> NumInt(0),
     synchrony |-> NumInt(0), t50 |-> NumInt(0)]

\* lines 119-120: every statistic of a replicate without germination is 0
DegenerateStats(total_germinated) ==
    [total_germinated |-> total_germinated,
     germinability |-> NumInt(0), mgt |-> NumInt(0), mgr |-> NumInt(0),
     variance |-> NumInt(0), std_dev |-> NumInt(0), cv |-> NumInt(0),
     speed_maguire |-> NumInt(0), uncertainty |-> NumInt(0),
     synchrony |-> NumInt(0), t50 |-> NumInt(0)]

\* lines 101-120: the local variables after the branch of line 103.  rep is
\* FillNa of the replicate's column.
ReplicateStats(days, rep, total_seeds, floatOk) ==
    LET total_germinated == Sum(rep.vals)
    IN  IF total_germinated > 0
        THEN PositiveStats(days, rep, total_germinated, total_seeds, floatOk)
        ELSE DegenerateStats(total_germinated)

\* 'ArcSin_Transformation' of line 135
ArcSinField(germinability) ==
    IF germinability.k = "rat" /\ germinability.n > 0
    THEN Round(NpArcsinSqrtDeg(RDiv(<<germinability.n, germinability.d>>, RInt(100))), 2)
    ELSE IF germinability.k = "inf" /\ germinability.n > 0
    THEN NaN
    ELSE NumInt(0)

\* The dictionary appended at lines 121-136 for the i-th replicate column
\* (i counts from 1: 'Replicate' is f'R{i+1}' of the 0-based index)
ReplicateRecord(days, rep, total_seeds, i, floatOk) ==
    LET s == ReplicateStats(days, rep, total_seeds, floatOk)
    IN  [Replicate |-> i,
         Total_Seeds |-> total_seeds,
         Germinated_Seeds |-> s.total_germinated,
         G_Germinability |-> Round(s.germinability, 2),
         MT_Mean_Germination_Time |-> Round(s.mgt, 2),
         CVt_Coefficient_Variation |-> Round(s.cv, 2),
         MR_Mean_Germination_Rate |-> Round(s.mgr, 4),
         U_Uncertainty_Index |-> Round(s.uncertainty, 3),
         Z_Synchrony_Index |-> Round(s.synchrony, 3),
         Variance_Germination_Time |-> Round(s.variance, 2),
         Standard_Deviation |-> Round(s.std_dev, 2),
         Speed_Maguire_Index |-> Round(s.speed_maguire, 2),
         T50_Time_50 |-> Round(s.t50, 2),
         ArcSin_Transformation |-> ArcSinField(s.germinability)]

\* The loop of lines 99-136 from the i-th name of rep_columns on
RECURSIVE AppendRecords(_, _, _, _, _, _, _)
AppendRecords(table, days, rep_columns, total_seeds, floatOk, i, results) ==
    IF i > Len(rep_columns) THEN results
    ELSE AppendRecords(table, days, rep_columns, total_seeds, floatOk, i + 1,
            IF HasColumn(table, rep_columns[i])
            THEN Append(results,
                        ReplicateRecord(days, FillNa(Column(table, rep_columns[i])),
                                        total_seeds, i, floatOk))
            ELSE results)

\* calculate_all_germination_parameters(treatment_data): the rows of the
\* returned DataFrame
CalculateAll(table, total_seeds, floatOk) ==
    AppendRecords(table, DaysOf(table), RepColumns(table), total_seeds, floatOk,
                  1, <<>>)

\* ================================================================ state

VARIABLES
    interpreterFloatOk, \* whether math.factorial accepts an integral float
    analyzer,           \* GermiTrackAnalyzer: [data, total_seeds] (__init__)
    treatment_data,     \* the table passed to the call
    pc,                 \* "loaded": before the call, "done": it returned
    results,            \* the rows of the DataFrame the call returned
    raised,             \* the exception the call raised, "none" for none
    txIn,               \* _calculate_tx alone: [days, rep_data]
    txCalls,            \* the percentages asked so far with the days returned
    data,               \* GermiTrackDesktop.data: treatment -> table
    seedsVar,           \* GermiTrackDesktop.total_seeds (the IntVar)
    batchPc,            \* analyze_data: "idle", "running", "finished"
    calls,              \* per treatment: the call's position and locals
    all_results,        \* analyze_data's all_results: treatment -> rows
    shown               \* the error messages analyze_data showed the user

vars == <<interpreterFloatOk, analyzer, treatment_data, pc, results, raised,
          txIn, txCalls, data, seedsVar, batchPc, calls, all_results, shown>>

engineVars == <<interpreterFloatOk, analyzer, treatment_data, pc, results, raised>>
txVars == <<txIn, txCalls>>
batchVars == <<data, seedsVar, batchPc, calls, all_results, shown>>

\* --------------------------------------------------------------- bounds

MaxRows == 2
MaxCount == 3
MaxDay == 3
MaxReps == 7
\* total_seeds=25 is the constructor's default
DefaultSeeds == 25
SeedChoices == {2, DefaultSeeds}

\* ------------------------------------------------------------ the inputs

NonDecreasing(days) == \A j \in 1..Len(days) - 1 : days[j] <= days[j + 1]

\* day axes of r rows, ascending with ties, day 0 included
DayAxes(r) == {d \in [1..r -> 0..MaxDay] : NonDecreasing(d)}

\* a loaded cell: missing, a negative number, or a count
CellSet == {NA, Cell(0 - 1)} \cup {Cell(c) : c \in 0..MaxCount}

DayColumn(days) == [j \in 1..Len(days) |-> Cell(days[j])]

\* Header styles: the day column's name and the replicate columns' prefixes
\* (odd and even columns).  "t"/"G" are names the code does not recognise.
StandardStyle == [day |-> "Day", odd |-> "R", even |-> "R"]
Styles == {StandardStyle,
           [day |-> "ti", odd |-> "TRep", even |-> "Rep"],
           [day |-> "t", odd |-> "G", even |-> "G"],
           [day |-> "Day", odd |-> "R", even |-> "G"]}

MakeTable(style, days, columns) ==
    [names |-> <<ColName(style.day, 0)>> \o
               [j \in 1..Len(columns) |->
                    ColName(IF j % 2 = 1 THEN style.odd ELSE style.even, j)],
     cols |-> <<DayColumn(days)>> \o columns]

\* one replicate column, up to MaxRows rows (none: the empty table)
IsDeepTable(tb) ==
    \E r \in 0..MaxRows : \E d \in DayAxes(r), c \in [1..r -> CellSet] :
        tb = MakeTable(StandardStyle, d, <<c>>)

\* one row, 2..MaxReps replicate columns, every header style
IsWideTable(tb) ==
    \E n \in 2..MaxReps : \E s \in Styles, d \in 0..1, c \in [1..n -> {0, 2}] :
        tb = MakeTable(s, <<d>>, [j \in 1..n |-> <<Cell(c[j])>>])

\* the worked scenarios: a five-day series, all germination on one day,
\* and a series with a day-0 observation
ScenarioSeries ==
    {[days |-> <<1, 2, 3, 4, 5>>, counts |-> <<0, 5, 10, 5, 5>>],
     [days |-> <<1, 2, 3>>, counts |-> <<0, 10, 0>>],
     [days |-> <<0, 1, 2>>, counts |-> <<2, 3, 1>>]}

IsScenarioTable(tb) ==
    \E sc \in ScenarioSeries :
        tb = MakeTable(StandardStyle, sc.days,
                       <<[j \in 1..Len(sc.counts) |-> Cell(sc.counts[j])]>>)

\* ----------------------------------------------- the engine, one call

TxIdle == txIn = [days |-> <<>>, rep_data |-> <<>>] /\ txCalls = <<>>
BatchIdle ==
    /\ data = <<>> /\ seedsVar = DefaultSeeds /\ batchPc = "idle" /\ calls = <<>>
    /\ all_results = <<>> /\ shown = <<>>

Init ==
    /\ interpreterFloatOk \in BOOLEAN
    /\ \/ IsDeepTable(treatment_data)
       \/ IsWideTable(treatment_data)
       \/ IsScenarioTable(treatment_data)
    /\ \E s \in SeedChoices :
          analyzer = [data |-> treatment_data, total_seeds |-> s]
    /\ pc = "loaded"
    /\ results = <<>>
    /\ raised = "pending"
    /\ TxIdle
    /\ BatchIdle

\* results = analyzer.calculate_all_germination_parameters(data): no
\* statement of lines 87-137 raises for a table of numbers
Analyze ==
    /\ pc = "loaded"
    /\ results' = CalculateAll(treatment_data, analyzer.total_seeds, interpreterFloatOk)
    /\ raised' = "none"
    /\ pc' = "done"
    /\ UNCHANGED <<interpreterFloatOk, analyzer, treatment_data, txVars, batchVars>>

Next == Analyze

Spec == Init /\ [][Next]_vars

\* ------------------------------------------------ _calculate_tx alone

EmptyTable == [names |-> <<>>, cols |-> <<>>]
EngineIdle ==
    /\ interpreterFloatOk = TRUE
    /\ analyzer = [data |-> EmptyTable, total_seeds |-> DefaultSeeds]
    /\ treatment_data = EmptyTable
    /\ pc = "idle"
    /\ results = <<>>
    /\ raised = "pending"

\* the target percentages asked of _calculate_tx: 0%, 30%, 50%, 70%, 100%
Percentages == {<<0, 1>>, <<3, 10>>, Half, <<7, 10>>, <<1, 1>>}

\* the series: non-decreasing days, non-negative counts, up to MaxRows + 1
\* rows (a row without germination between two with germination included),
\* and the worked scenarios
IsTxSeries(in) ==
    \/ \E r \in 0..(MaxRows + 1) : \E d \in DayAxes(r), c \in [1..r -> 0..MaxCount] :
          in = [days |-> d, rep_data |-> c]
    \/ \E sc \in ScenarioSeries : in = [days |-> sc.days, rep_data |-> sc.counts]

TxInit ==
    /\ IsTxSeries(txIn)
    /\ txCalls = <<>>
    /\ EngineIdle
    /\ BatchIdle

\* self._calculate_tx(days, rep_data, np.sum(rep_data), percentage), asked
\* twice of the same series
TxCall ==
    /\ Len(txCalls) < 2
    /\ \E percentage \in Percentages :
          txCalls' = Append(txCalls,
                [percentage |-> percentage,
                 ret |-> TxTrace(txIn.days, txIn.rep_data, Sum(txIn.rep_data),
                                 percentage)])
    /\ UNCHANGED <<txIn, engineVars, batchVars>>

TxNext == TxCall

SpecTx == TxInit /\ [][TxNext]_vars

\* --------------------------------- GermiTrackDesktop.analyze_data
\* analyze_data takes the treatments one after another (line 407); the
\* steps of the calls are also allowed to interleave here, which includes
\* every sequential order and the concurrent use of separate analyzers.

\* the treatments (sheets) a loaded file may hold
Treatments == {"A", "B"}

\* the sheets of a loaded file: no row or one row, one or two replicate
\* columns, a cell 0, 2 or missing
BatchCells == {Cell(0), Cell(2), NA}
BatchTables ==
    UNION {{MakeTable(StandardStyle, [j \in 1..r |-> 1],
                      [k \in 1..n |-> [j \in 1..r |-> c[k]]]) :
                c \in [1..n -> BatchCells]} : r \in 0..1, n \in 1..2}

NoCall == [pc |-> "idle", analyzer |-> [data |-> EmptyTable, total_seeds |-> 0],
           treatment_data |-> EmptyTable, days |-> <<>>, rep_columns |-> <<>>,
           i |-> 1, results |-> <<>>]

BatchInit ==
    /\ interpreterFloatOk \in BOOLEAN
    /\ \E S \in SUBSET Treatments : data \in [S -> BatchTables]
    /\ seedsVar \in SeedChoices
    /\ batchPc = "idle"
    /\ calls = [t \in DOMAIN data |-> NoCall]
    /\ all_results = <<>>
    /\ shown = <<>>
    /\ analyzer = [data |-> EmptyTable, total_seeds |-> DefaultSeeds]
    /\ treatment_data = EmptyTable
    /\ pc = "idle"
    /\ results = <<>>
    /\ raised = "pending"
    /\ TxIdle

\* lines 398-400: nothing loaded
WarnNoData ==
    /\ batchPc = "idle"
    /\ DOMAIN data = {}
    /\ shown' = Append(shown, "Warning: Please upload a data file first!")
    /\ batchPc' = "finished"
    /\ UNCHANGED <<data, seedsVar, calls, all_results, engineVars, txVars>>

\* lines 401-406
StartAnalysis ==
    /\ batchPc = "idle"
    /\ DOMAIN data # {}
    /\ batchPc' = "running"
    /\ all_results' = <<>>
    /\ UNCHANGED <<data, seedsVar, calls, shown, engineVars, txVars>>

\* line 408: len(data) > 0 and not data.empty
NotEmpty(table) == NRows(table) > 0 /\ Len(table.names) > 0

\* line 408, false: the treatment is passed over
SkipTreatment(t) ==
    /\ batchPc = "running"
    /\ calls[t].pc = "idle"
    /\ ~NotEmpty(data[t])
    /\ calls' = [calls EXCEPT ![t].pc = "skipped"]
    /\ UNCHANGED <<data, seedsVar, batchPc, all_results, shown, engineVars, txVars>>

\* lines 410-411 and 88-98: the analyzer is built and the call entered
BeginCall(t) ==
    /\ batchPc = "running"
    /\ calls[t].pc = "idle"
    /\ NotEmpty(data[t])
    /\ calls' = [calls EXCEPT ![t] =
            [pc |-> "loop",
             analyzer |-> [data |-> data[t], total_seeds |-> seedsVar],
             treatment_data |-> data[t],
             days |-> DaysOf(data[t]),
             rep_columns |-> RepColumns(data[t]),
             i |-> 1,
             results |-> <<>>]]
    /\ UNCHANGED <<data, seedsVar, batchPc, all_results, shown, engineVars, txVars>>

\* LoopStep with one results list shared by the calls in progress
LoopStepSharedResults(t) ==
    LET c == calls[t]
        row == ReplicateRecord(c.days,
                    FillNa(Column(c.treatment_data, c.rep_columns[c.i])),
                    c.analyzer.total_seeds, c.i, interpreterFloatOk)
    IN  /\ batchPc = "running"
        /\ c.pc = "loop"
        /\ c.i <= Len(c.rep_columns)
        /\ calls' = [u \in DOMAIN calls |->
                        IF u = t
                        THEN [c EXCEPT !.i = c.i + 1, !.results = Append(c.results, row)]
                        ELSE IF calls[u].pc = "loop"
                        THEN [calls[u] EXCEPT !.results = Append(calls[u].results, row)]
                        ELSE calls[u]]
        /\ UNCHANGED <<data, seedsVar, batchPc, all_results, shown, engineVars, txVars>>

\* lines 99-136: one iteration of the loop over rep_columns
LoopStep(t) ==
    LET c == calls[t]
    IN  /\ batchPc = "running"
        /\ c.pc = "loop"
        /\ c.i <= Len(c.rep_columns)
        /\ calls' = [calls EXCEPT ![t] =
                [c EXCEPT !.i = c.i + 1,
                          !.results =
                             IF HasColumn(c.treatment_data, c.rep_columns[c.i])
                             THEN Append(c.results,
                                    ReplicateRecord(c.days,
                                        FillNa(Column(c.treatment_data, c.rep_columns[c.i])),
                                        c.analyzer.total_seeds, c.i, interpreterFloatOk))
                             ELSE c.results]]
        /\ UNCHANGED <<data, seedsVar, batchPc, all_results, shown, engineVars, txVars>>

\* lines 137 and 412: the call returns, all_results[treatment] = results
ReturnCall(t) ==
    /\ batchPc = "running"
    /\ calls[t].pc = "loop"
    /\ calls[t].i > Len(calls[t].rep_columns)
    /\ calls' = [calls EXCEPT ![t].pc = "done"]
    /\ all_results' = all_results @@ (t :> calls[t].results)
    /\ UNCHANGED <<data, seedsVar, batchPc, shown, engineVars, txVars>>

\* lines 417-427: the report is saved when there is a result
FinishAnalysis ==
    /\ batchPc = "running"
    /\ \A t \in DOMAIN calls : calls[t].pc \in {"skipped", "done"}
    /\ shown' = IF DOMAIN all_results # {}
                THEN Append(shown, "Analysis Complete")
                ELSE shown
    /\ batchPc' = "finished"
    /\ UNCHANGED <<data, seedsVar, calls, all_results, engineVars, txVars>>

BatchNext ==
    \/ WarnNoData
    \/ StartAnalysis
    \/ \E t \in DOMAIN data : SkipTreatment(t)
    \/ \E t \in DOMAIN data : BeginCall(t)
    \/ \E t \in DOMAIN data : LoopStep(t)
    \/ \E t \in DOMAIN data : ReturnCall(t)
    \/ FinishAnalysis

SpecBatch == BatchInit /\ [][BatchNext]_vars

\* ============================================================== claims

\* The replicate columns of a table, by position: the columns whose name
\* starts with R or contains Rep, or every column but the first when none
\* does.
RecognisedPositions(tb) ==
    {j \in 1..Len(tb.names) : tb.names[j].prefix \in {"R", "Rep", "TRep"}}
ReplicatePositions(tb) ==
    IF RecognisedPositions(tb) = {} THEN 2..Len(tb.names)
    ELSE RecognisedPositions(tb)
NthPosition(S, i) == CHOOSE j \in S : Cardinality({k \in S : k < j}) = i - 1

\* the cells and the counts (a missing cell counts 0) of the i-th replicate
CellsOf(tb, i) == tb.cols[NthPosition(ReplicatePositions(tb), i)]
CountsOf(tb, i) ==
    [j \in 1..Len(CellsOf(tb, i)) |->
        IF CellsOf(tb, i)[j].na THEN 0 ELSE CellsOf(tb, i)[j].v]
\* the day axis: the first column of every table of Init
DayAxisOf(tb) == [j \in 1..Len(tb.cols[1]) |-> tb.cols[1][j].v]

RECURSIVE IntSumTo(_, _)
IntSumTo(f, n) == IF n = 0 THEN 0 ELSE IntSumTo(f, n - 1) + f[n]
RECURSIVE RatSumTo(_, _)
RatSumTo(f, n) == IF n = 0 THEN <<0, 1>> ELSE RAdd(RatSumTo(f, n - 1), f[n])
TotalOf(tb, i) == IntSumTo(CountsOf(tb, i), Len(CountsOf(tb, i)))

NoNegativeCount(tb, i) == \A j \in 1..Len(CountsOf(tb, i)) : CountsOf(tb, i)[j] >= 0
NoMissingCell(tb, i) == \A j \in 1..Len(CellsOf(tb, i)) : ~CellsOf(tb, i)[j].na

DerivedFields(r) ==
    <<r.G_Germinability, r.MT_Mean_Germination_Time, r.CVt_Coefficient_Variation,
      r.MR_Mean_Germination_Rate, r.U_Uncertainty_Index, r.Z_Synchrony_Index,
      r.Variance_Germination_Time, r.Standard_Deviation, r.Speed_Maguire_Index,
      r.T50_Time_50, r.ArcSin_Transformation>>
AllDerivedZero(r) == \A j \in 1..Len(DerivedFields(r)) : IsZero(DerivedFields(r)[j])
AllDerivedFinite(r) == \A j \in 1..Len(DerivedFields(r)) : IsFinite(DerivedFields(r)[j])

\* C1: when the call has returned, it raised nothing, and every record of a
\* replicate whose daily counts sum to 0 has all eleven derived fields
\* (germinability, mean time, CV, rate, uncertainty, synchrony, variance,
\* standard deviation, speed index, T50, arcsine transform) equal to 0.
C1_ZeroTotalGivesZeroRecord ==
    pc = "done" =>
        /\ raised = "none"
        /\ \A i \in 1..Len(results) :
              TotalOf(treatment_data, i) = 0 => AllDerivedZero(results[i])

\* C1 witness: a returned record of a replicate with at least one day row
\* and a zero total, all derived fields 0.
C1_Witness ==
    /\ pc = "done"
    /\ NRows(treatment_data) >= 1
    /\ \E i \in 1..Len(results) :
          /\ TotalOf(treatment_data, i) = 0
          /\ results[i].Germinated_Seeds = 0
          /\ AllDerivedZero(results[i])

\* a structurally valid input: at least one day row, every count a
\* non-negative integer (no missing cell), total_seeds a positive integer
StructurallyValid(tb, total_seeds) ==
    /\ NRows(tb) >= 1
    /\ total_seeds > 0
    /\ \A i \in 1..Cardinality(ReplicatePositions(tb)) :
          NoNegativeCount(tb, i) /\ NoMissingCell(tb, i)

\* C2 (as claimed): for a structurally valid input no field of any emitted
\* record is NaN or infinite.
C2_NoNonFiniteField ==
    (pc = "done" /\ StructurallyValid(treatment_data, analyzer.total_seeds)) =>
        \A i \in 1..Len(results) : AllDerivedFinite(results[i])

HasNegativeCount(tb) ==
    \E i \in 1..Cardinality(ReplicatePositions(tb)) : ~NoNegativeCount(tb, i)

\* C3 (as claimed): a table with a negative count in a replicate column
\* makes the call raise DataShapeError and return no record.
C3_NegativeCountRaises ==
    (pc = "done" /\ HasNegativeCount(treatment_data)) =>
        raised = "DataShapeError" /\ results = <<>>

\* the days with germination in the i-th replicate
GerminationDays(tb, i) == {j \in 1..Len(CountsOf(tb, i)) : CountsOf(tb, i)[j] # 0}

\* C7 (as claimed, the single-day case read for totalGerminated >= 2, where
\* the claim's other clause does not make it 0): for a replicate without a
\* negative count the synchrony index is in [0, 1] when totalGerminated >= 2,
\* is 1 when all germination falls on one day, and is 0 when
\* totalGerminated < 2 or every day's count is at most 1.
C7_SynchronyRange ==
    pc = "done" =>
        \A i \in 1..Len(results) :
            NoNegativeCount(treatment_data, i) =>
                LET z == results[i].Z_Synchrony_Index
                    total == TotalOf(treatment_data, i)
                    counts == CountsOf(treatment_data, i)
                IN  /\ z.k = "rat"
                    /\ total >= 2 => (z.n >= 0 /\ z.n <= z.d)
                    /\ (total >= 2 /\ Cardinality(GerminationDays(treatment_data, i)) = 1)
                          => IsRatVal(z, <<1, 1>>)
                    /\ total < 2 => IsZero(z)
                    /\ (\A j \in 1..Len(counts) : counts[j] <= 1) => IsZero(z)

\* the speed index and the mean germination time the formulas give
ExpectedSpeed(days, counts) ==
    RatSumTo([j \in 1..Len(counts) |-> Rat(counts[j], days[j])], Len(counts))
ExpectedMeanTime(days, counts) ==
    Rat(IntSumTo([j \in 1..Len(counts) |-> days[j] * counts[j]], Len(counts)),
        IntSumTo(counts, Len(counts)))

\* C8: for a replicate without a negative count, when any day of the table
\* is <= 0 the record's speed index is 0; when every day is > 0 it is the sum
\* of dailyCount/day (rounded to 2 decimals, as every field of the record);
\* and whenever totalGerminated > 0 the mean germination time is the
\* weighted mean over all rows, a day-0 row included (rounded to 2 decimals).
C8_SpeedIndexAllOrNothing ==
    pc = "done" =>
        \A i \in 1..Len(results) :
            NoNegativeCount(treatment_data, i) =>
                LET days == DayAxisOf(treatment_data)
                    counts == CountsOf(treatment_data, i)
                IN  /\ (\E j \in 1..Len(days) : days[j] <= 0)
                          => IsZero(results[i].Speed_Maguire_Index)
                    /\ (\A j \in 1..Len(days) : days[j] > 0)
                          => IsRatVal(results[i].Speed_Maguire_Index,
                                      RRound(ExpectedSpeed(days, counts), 2))
                    /\ TotalOf(treatment_data, i) > 0
                          => IsRatVal(results[i].MT_Mean_Germination_Time,
                                      RRound(ExpectedMeanTime(days, counts), 2))

\* C8 witness: a returned record of a replicate with germination on day 0
\* and on a later day: speed index 0, mean germination time above 0.
C8_Witness ==
    /\ pc = "done"
    /\ \E i \in 1..Len(results) :
          LET days == DayAxisOf(treatment_data)
              counts == CountsOf(treatment_data, i)
          IN  /\ NoNegativeCount(treatment_data, i)
              /\ \E j, k \in 1..Len(days) :
                    days[j] = 0 /\ counts[j] > 0 /\ days[k] > 0 /\ counts[k] > 0
              /\ IsZero(results[i].Speed_Maguire_Index)
              /\ results[i].MT_Mean_Germination_Time.n > 0

\* C9 (as claimed): at most 6 records are returned; a table with more than
\* 6 replicate columns gives exactly 6.
C9_AtMostSixRecords ==
    pc = "done" =>
        /\ Len(results) <= ChartReplicateCap
        /\ Cardinality(ReplicatePositions(treatment_data)) > ChartReplicateCap
              => Len(results) = ChartReplicateCap

\* C9 (amended): one record per replicate column, in column order, for
\* every replicate column, however many: the i-th record is numbered i and
\* counts the germinated seeds of the i-th replicate column.
C9_OneRecordPerReplicateColumn ==
    pc = "done" =>
        /\ Len(results) = Cardinality(ReplicatePositions(treatment_data))
        /\ \A i \in 1..Len(results) :
              /\ results[i].Replicate = i
              /\ results[i].Germinated_Seeds = TotalOf(treatment_data, i)

\* C9 witness: a table with more than 6 replicate columns, of different
\* totals, and a record for each.
C9_Witness ==
    /\ pc = "done"
    /\ Cardinality(ReplicatePositions(treatment_data)) > ChartReplicateCap
    /\ Len(results) > ChartReplicateCap
    /\ \E i, j \in 1..Len(results) :
          i < j /\ results[i].Germinated_Seeds # results[j].Germinated_Seeds

\* C5: for a series with non-decreasing days, non-negative counts and
\* totalGerminated > 0, of two percentages asked the lower one never gets
\* the later day.
C5_TxMonotonic ==
    \A a, b \in 1..Len(txCalls) :
        (IntSumTo(txIn.rep_data, Len(txIn.rep_data)) > 0
           /\ RLe(txCalls[a].percentage, txCalls[b].percentage))
        => RLe(txCalls[a].ret.val, txCalls[b].ret.val)

\* C5 witness: two percentages asked of a germinating series, the higher
\* one answered with a strictly later day.
C5_Witness ==
    /\ Len(txCalls) = 2
    /\ IntSumTo(txIn.rep_data, Len(txIn.rep_data)) > 0
    /\ RLt(txCalls[1].percentage, txCalls[2].percentage)
    /\ RLt(txCalls[1].ret.val, txCalls[2].ret.val)

\* the cumulative count at row j, and the first row reaching the target
CumulativeAt(counts, j) == IntSumTo(counts, j)
FirstReaching(counts, target) ==
    CHOOSE i \in 1..Len(counts) :
        /\ RLe(target, RInt(CumulativeAt(counts, i)))
        /\ \A j \in 1..(i - 1) : RLt(RInt(CumulativeAt(counts, j)), target)

\* C6: for totalGerminated > 0 the day answered for 50% is fixed by the
\* first row i whose cumulative count reaches 0.5 * totalGerminated: day[0]
\* when i is the first row, else day[i-1] + (target - cumulative[i-1]) *
\* (day[i] - day[i-1]) / (cumulative[i] - cumulative[i-1]); for
\* days 1..5 with counts 0, 5, 10, 5, 5 that is 2.75.
C6_T50Interpolation ==
    \A a \in 1..Len(txCalls) :
        LET days == txIn.days
            counts == txIn.rep_data
            total == IntSumTo(counts, Len(counts))
            target == Rat(total, 2)
            i == FirstReaching(counts, target)
            y1 == CumulativeAt(counts, i - 1)
            y2 == CumulativeAt(counts, i)
        IN  (total > 0 /\ txCalls[a].percentage = <<1, 2>>) =>
                /\ i = 1 => txCalls[a].ret.val = RInt(days[1])
                /\ i > 1 =>
                      /\ y2 # y1
                      /\ txCalls[a].ret.val =
                            Rat(days[i - 1] * 2 * (y2 - y1)
                                  + (total - 2 * y1) * (days[i] - days[i - 1]),
                                2 * (y2 - y1))
                /\ (days = <<1, 2, 3, 4, 5>> /\ counts = <<0, 5, 10, 5, 5>>)
                      => txCalls[a].ret.val = <<11, 4>>

\* C6 witness: 50% asked of days 1..5 with counts 0, 5, 10, 5, 5, answered
\* 2.75 by interpolation between the second and the third row.
C6_Witness ==
    /\ txIn = [days |-> <<1, 2, 3, 4, 5>>, rep_data |-> <<0, 5, 10, 5, 5>>]
    /\ \E a \in 1..Len(txCalls) :
          /\ txCalls[a].percentage = <<1, 2>>
          /\ txCalls[a].ret = [branch |-> "interp", i |-> 3, val |-> <<11, 4>>]

\* an error message analyze_data showed
ErrorShown(kind) == \E j \in 1..Len(shown) : shown[j] = kind

\* C4 (as claimed): a treatment whose table has no day row ends with a
\* DataShapeError shown to the user; it is not passed over and gets no
\* records.
C4_EmptyTableRaises ==
    \A t \in DOMAIN data :
        (NRows(data[t]) = 0 /\ batchPc = "finished") =>
            /\ calls[t].pc # "skipped"
            /\ ErrorShown("DataShapeError")
            /\ t \notin DOMAIN all_results

\* the records of a treatment decided by its table and the seed count alone
RecordsOf(table, total_seeds) ==
    [i \in 1..Cardinality(ReplicatePositions(table)) |->
        ReplicateRecord(DayAxisOf(table),
                        [vals |-> CountsOf(table, i),
                         float |-> ~NoMissingCell(table, i)],
                        total_seeds, i, interpreterFloatOk)]

\* C10: every call, alone or interleaved with the other treatment's call,
\* returns the records its own table and the seed count decide (so equal
\* tables get equal records, whatever was analysed before or meanwhile),
\* and no step changes a loaded table, the seed count, a call's own table
\* or its analyzer.
C10_ResultsDependOnTableOnly ==
    \A t \in DOMAIN calls :
        /\ calls[t].pc = "done" =>
              /\ t \in DOMAIN all_results
              /\ all_results[t] = RecordsOf(data[t], seedsVar)
              /\ \A u \in DOMAIN all_results :
                    data[u] = data[t] => all_results[u] = all_results[t]
        /\ calls[t].pc \in {"loop", "done"} =>
              /\ calls[t].treatment_data = data[t]
              /\ calls[t].analyzer = [data |-> data[t], total_seeds |-> seedsVar]

\* no step of analyze_data or of a call writes a loaded table or the seed count
C10_InputsUnchanged == [][data' = data /\ seedsVar' = seedsVar]_vars

\* C10: calls are stateless and independent: at every moment each returned
\* call holds the records its own table and the seed count decide, and the
\* inputs are never written.
C10_Stateless == []C10_ResultsDependOnTableOnly /\ C10_InputsUnchanged

\* C10 witness: two treatments with different tables, both calls returned,
\* each with its own non-empty records.
C10_Witness ==
    /\ DOMAIN data = Treatments
    /\ \A t \in Treatments : calls[t].pc = "done"
    /\ data["A"] # data["B"]
    /\ all_results["A"] # all_results["B"]
    /\ \A t \in Treatments : Len(all_results[t]) >= 1

\* the row of the only day with germination: its count is at least 1 and
\* every other row counts 0
IsSingleDayRow(counts, j) ==
    /\ counts[j] >= 1
    /\ \A k \in 1..Len(counts) : k # j => counts[k] = 0

\* the sample variance of the day values weighted by the daily counts
ExpectedVariance(days, counts) ==
    LET mean == ExpectedMeanTime(days, counts)
        dev(j) == RSub(RInt(days[j]), mean)
    IN  RDiv(RatSumTo([j \in 1..Len(counts) |->
                          RMul(RInt(counts[j]), RMul(dev(j), dev(j)))],
                      Len(counts)),
             RInt(IntSumTo(counts, Len(counts)) - 1))

\* C11: when all germination of a replicate falls on one row, of day d, the
\* record's mean germination time is d and its variance, standard
\* deviation, coefficient of variation and uncertainty are 0; for every
\* replicate the variance is the sum of count * (day - mean time)^2 divided
\* by totalGerminated - 1 (rounded to 2 decimals, as the record stores it)
\* when totalGerminated > 1, and 0 when totalGerminated <= 1.
C11_SingleDayStatistics ==
    pc = "done" =>
        \A i \in 1..Len(results) :
            LET days == DayAxisOf(treatment_data)
                counts == CountsOf(treatment_data, i)
                total == TotalOf(treatment_data, i)
                r == results[i]
            IN  /\ \A j \in 1..Len(counts) :
                      IsSingleDayRow(counts, j) =>
                          /\ IsRatVal(r.MT_Mean_Germination_Time, RInt(days[j]))
                          /\ IsZero(r.Variance_Germination_Time)
                          /\ IsZero(r.Standard_Deviation)
                          /\ IsZero(r.CVt_Coefficient_Variation)
                          /\ IsZero(r.U_Uncertainty_Index)
                /\ total > 1 =>
                      IsRatVal(r.Variance_Germination_Time,
                               RRound(ExpectedVariance(days, counts), 2))
                /\ total <= 1 => IsZero(r.Variance_Germination_Time)

\* C11 witness: the returned record of days 1, 2, 3 with counts 0, 10, 0:
\* mean germination time 2, variance 0, uncertainty 0.
C11_Witness ==
    /\ pc = "done"
    /\ DayAxisOf(treatment_data) = <<1, 2, 3>>
    /\ Len(results) = 1
    /\ CountsOf(treatment_data, 1) = <<0, 10, 0>>
    /\ IsSingleDayRow(CountsOf(treatment_data, 1), 2)
    /\ IsRatVal(results[1].MT_Mean_Germination_Time, <<2, 1>>)
    /\ IsZero(results[1].Variance_Germination_Time)
    /\ IsZero(results[1].U_Uncertainty_Index)

\* a call within the claimed domain: a germinating series (its days are
\* non-decreasing and its counts non-negative in every series asked) and a
\* percentage above 0 and at most 1
InTxDomain(call) ==
    /\ IntSumTo(txIn.rep_data, Len(txIn.rep_data)) > 0
    /\ RLt(<<0, 1>>, call.percentage)
    /\ RLe(call.percentage, <<1, 1>>)

\* total_germinated * percentage of a call
TargetOf(call) ==
    RMul(RInt(IntSumTo(txIn.rep_data, Len(txIn.rep_data))), call.percentage)

\* the call returned inside the loop, at the first row i whose cumulative
\* count reaches the target, by the first-row or the interpolation return
ReturnedAtReachingRow(call) ==
    LET i == call.ret.i
        target == TargetOf(call)
    IN  /\ call.ret.branch \in {"first", "interp"}
        /\ i \in 1..Len(txIn.days)
        /\ RLe(target, RInt(CumulativeAt(txIn.rep_data, i)))
        /\ i > 1 => RLt(RInt(CumulativeAt(txIn.rep_data, i - 1)), target)
        /\ RLe(RInt(txIn.days[1]), call.ret.val)
        /\ RLe(call.ret.val, RInt(txIn.days[Len(txIn.days)]))

\* C12 (as claimed): within the domain every call returns inside the loop
\* at a row i with cumulative[i-1] < target <= cumulative[i], never by the
\* flat-segment or the fallback return, with a day in [days[0], days[-1]]
\* that is strictly above days[i-1] and at most days[i] when i > 0.
C12_TxStrictlyAbovePreviousDay ==
    \A a \in 1..Len(txCalls) :
        InTxDomain(txCalls[a]) =>
            /\ ReturnedAtReachingRow(txCalls[a])
            /\ txCalls[a].ret.i > 1 =>
                  /\ RLt(RInt(txIn.days[txCalls[a].ret.i - 1]), txCalls[a].ret.val)
                  /\ RLe(txCalls[a].ret.val, RInt(txIn.days[txCalls[a].ret.i]))

\* C12 (amended): within the domain every call returns inside the loop at
\* a row i with cumulative[i-1] < target <= cumulative[i], never by the
\* flat-segment or the fallback return, with a day in [days[0], days[-1]];
\* when i > 0 the day is at least days[i-1] and at most days[i], and
\* strictly above days[i-1] only when days[i] > days[i-1] (on tied days it
\* is days[i-1] itself).
C12_TxReturnsInsideLoop ==
    \A a \in 1..Len(txCalls) :
        InTxDomain(txCalls[a]) =>
            LET i == txCalls[a].ret.i
                val == txCalls[a].ret.val
            IN  /\ ReturnedAtReachingRow(txCalls[a])
                /\ i > 1 =>
                      /\ RLe(RInt(txIn.days[i - 1]), val)
                      /\ RLe(val, RInt(txIn.days[i]))
                      /\ txIn.days[i - 1] < txIn.days[i] =>
                            RLt(RInt(txIn.days[i - 1]), val)
                      /\ txIn.days[i - 1] = txIn.days[i] =>
                            val = RInt(txIn.days[i - 1])

\* C12 witness: a call within the domain answered by interpolation at a
\* later row after a row without germination (cumulative count unchanged
\* before it), the day strictly between the two rows' days.
C12_Witness ==
    \E a \in 1..Len(txCalls) :
        LET i == txCalls[a].ret.i
        IN  /\ InTxDomain(txCalls[a])
            /\ txCalls[a].ret.branch = "interp"
            /\ i > 2
            /\ txIn.rep_data[i - 1] = 0
            /\ RLt(RInt(txIn.days[i - 1]), txCalls[a].ret.val)
            /\ RLt(txCalls[a].ret.val, RInt(txIn.days[i]))

====
